---- MODULE Spec2Model ----
(***************************************************************************)
(* SkyRadar: the radar view (src/src/radar_view.rs), the aircraft and      *)
(* trail records (src/src/aircraft.rs), the application loop that drives   *)
(* them (src/src/app.rs), the configuration (src/src/config.rs), the       *)
(* bearings of src/src/geo.rs and the telemetry sources (src/src/api.rs).  *)
(*                                                                         *)
(* Numbers.  The code computes in f32/f64.  The model is fixed-point:      *)
(*   geographic coordinates   unit 1e-4 degree  (37.7749 is 377749)        *)
(*   scale                    unit 0.01         (1.0 is 100)               *)
(*   screen coordinates       unit 0.1 pixel    (240 px is 2400)           *)
(*   viewport rectangles      unit 1 pixel                                 *)
(*   time                     unit 1 tick, TicksPerSecond ticks a second   *)
(*   altitude                 unit 0.1 foot     (999.9 ft is 9999)         *)
(*   radar radius             unit 0.1 km       (8.0 km is 80)             *)
(*   bearings                 unit 1/MilliPerDegree degree                 *)
(* With these units (lon_diff * 1000000.0) as f32 * scale is the integer   *)
(* 10 * lon_diff * scale, so the projection is exact on the grid.  A float *)
(* is a record: a finite number, NaN, +infinity or -infinity, because      *)
(* Rect::NOTHING and f32::clamp produce the non-finite ones.  An Option is *)
(* a sequence: <<>> is None and <<v>> is Some(v).                          *)
(***************************************************************************)
EXTENDS Integers, Sequences, FiniteSets, TLC

VARIABLES
    trail,            \* one AircraftTrail taken alone (aircraft.rs:110)
    appended,         \* history: every entry handed to add_position on `trail`
    center,           \* RadarView.center   (radar_view.rs:10)
    radius,           \* RadarView.radius   (radar_view.rs:11)
    scale,            \* RadarView.scale    (radar_view.rs:12)
    aircraft_trails,  \* RadarView.aircraft_trails (radar_view.rs:13)
    canvas,           \* the primitives the last draw handed to the painter
    config,           \* SkyRadarApp.config (app.rs:15)
    aircraft,         \* SkyRadarApp.aircraft, the snapshot (app.rs:16)
    last_update,      \* SkyRadarApp.last_update (app.rs:18)
    last_refresh,     \* SkyRadarApp.last_refresh (app.rs:19)
    status_message,   \* SkyRadarApp.status_message (app.rs:26)
    is_loading,       \* SkyRadarApp.is_loading (app.rs:27)
    now,              \* the wall clock, Utc::now() / Instant::now()
    pc,               \* position inside eframe::App::update (app.rs:336)
    refreshed,        \* history: a refresh ran in the frame being processed
    api,              \* SkyRadarApp.api, the telemetry source (app.rs:24)
    bearing           \* the last bearing_to taken, with its two locations

trailVars == <<trail, appended>>
viewVars  == <<center, radius, scale, aircraft_trails, canvas>>
appVars   == <<config, aircraft, last_update, last_refresh, status_message,
               is_loading, now, pc, refreshed, api>>
geoVars   == <<bearing>>
vars      == <<trail, appended, center, radius, scale, aircraft_trails, canvas,
               config, aircraft, last_update, last_refresh, status_message,
               is_loading, now, pc, refreshed, api, bearing>>

-----------------------------------------------------------------------------
(* Bounds of the model.                                                    *)

MaxPoints == 3          \* largest max_points of the trail taken alone
MaxAppends == 5         \* longest run of add_position calls on it
MaxStamp == 1           \* timestamps handed to add_position: 0..MaxStamp
TicksPerSecond == 2     \* resolution of the clock and of every timestamp
MilliPerDegree == 1000  \* resolution of the angle atan2 returns
AngleUlp == 4           \* spacing of the f64 values around 360.0, in that unit

-----------------------------------------------------------------------------
(* Option<T>.                                                              *)

None == <<>>
Some(v) == <<v>>
IsSome(o) == o # <<>>
Unwrap(o) == o[1]

(* f32 values.                                                             *)

Num(v) == [k |-> "num", v |-> v]
NaN == [k |-> "nan", v |-> 0]
PosInf == [k |-> "inf", v |-> 0]
NegInf == [k |-> "ninf", v |-> 0]
IsNum(a) == a.k = "num"
IsNaN(a) == a.k = "nan"

FNeg(a) ==
    CASE a.k = "num" -> Num(0 - a.v)
      [] a.k = "inf" -> NegInf
      [] a.k = "ninf" -> PosInf
      [] OTHER -> NaN

FAdd(a, b) ==
    CASE IsNaN(a) \/ IsNaN(b) -> NaN
      [] IsNum(a) /\ IsNum(b) -> Num(a.v + b.v)
      [] IsNum(a) -> b
      [] IsNum(b) -> a
      [] a.k = b.k -> a
      [] OTHER -> NaN

FSub(a, b) == FAdd(a, FNeg(b))

\* a * n for an integer n
FTimes(a, n) ==
    CASE IsNum(a) -> Num(a.v * n)
      [] IsNaN(a) \/ n = 0 -> NaN
      [] n < 0 -> FNeg(a)
      [] OTHER -> a

\* a < b of IEEE 754: false when either side is NaN
FLt(a, b) ==
    CASE IsNaN(a) \/ IsNaN(b) -> FALSE
      [] IsNum(a) /\ IsNum(b) -> a.v < b.v
      [] a.k = "ninf" -> b.k # "ninf"
      [] b.k = "inf" -> a.k # "inf"
      [] OTHER -> FALSE

\* f32::min: the other operand when one is NaN
FMin(a, b) ==
    CASE IsNaN(a) -> b
      [] IsNaN(b) -> a
      [] FLt(b, a) -> b
      [] OTHER -> a

\* f32::clamp(self, lo, hi): NaN stays NaN
FClamp(a, lo, hi) ==
    CASE IsNaN(a) -> a
      [] FLt(a, Num(lo)) -> Num(lo)
      [] FLt(Num(hi), a) -> Num(hi)
      [] OTHER -> a

-----------------------------------------------------------------------------
(* aircraft.rs: AircraftTrail.                                             *)

AircraftTrail_new(icao24, max_points) ==
    [icao24 |-> icao24, positions |-> <<>>, max_points |-> max_points]

\* add_position that never evicts
add_position_no_evict(t, position, timestamp) ==
    [t EXCEPT !.positions = Append(t.positions, <<position, timestamp>>)]

\* add_position that evicts the entry it has just pushed
add_position_evict_newest(t, position, timestamp) ==
    LET pushed == Append(t.positions, <<position, timestamp>>)
    IN  [t EXCEPT !.positions =
            IF Len(pushed) > t.max_points
            THEN SubSeq(pushed, 1, Len(pushed) - 1) ELSE pushed]

\* positions.push(..); if positions.len() > max_points { positions.remove(0) }
add_position(t, position, timestamp) ==
    LET pushed == Append(t.positions, <<position, timestamp>>)
    IN  [t EXCEPT !.positions =
            IF Len(pushed) > t.max_points THEN Tail(pushed) ELSE pushed]

-----------------------------------------------------------------------------
(* geo.rs: Location.  lat and lon in units of 1e-4 degree.                 *)

Location_new(lat, lon, name) == [lat |-> lat, lon |-> lon, name |-> name]

SanFranciscoLat == 377749
SanFranciscoLon == -1224194

san_francisco ==
    Location_new(SanFranciscoLat, SanFranciscoLon, Some("San Francisco"))

\* geo_types::Point::new(x, y): x is the longitude, y the latitude
Point_new(lon, lat) == [x |-> lon, y |-> lat]

Location_from_point(pt) == Location_new(pt.y, pt.x, None)

Abs(n) == IF n < 0 THEN 0 - n ELSE n

RECURSIVE ISqrtIn(_, _, _)
ISqrtIn(n, lo, hi) ==
    IF lo >= hi THEN lo
    ELSE LET mid == (lo + hi + 1) \div 2
         IN  IF mid * mid <= n THEN ISqrtIn(n, mid, hi)
             ELSE ISqrtIn(n, lo, mid - 1)

\* floor of the square root of n >= 0
ISqrt(n) == ISqrtIn(n, 0, 46340)

\* q * m / 1000 without leaving 32 bits
MulMilli(q, m) == (m \div 1000) * q + ((m % 1000) * q) \div 1000

\* 10000 * cos(latitude), for the latitudes of the model, which all lie
\* within 0.1 degree of 37.7749: cos is 0.7904 throughout
Cos1e4(lat) == 7904

\* Haversine distance, in whole metres (rounded down).  The code computes
\*   a = sin^2(dlat/2) + cos(lat1) cos(lat2) sin^2(dlon/2),
\*   6371.0 * 2 asin(sqrt(a))   [km].
\* For the differences of the model (below 0.2 degree) sin x and asin x equal
\* x to 7 digits, so the distance is 6371 km * sqrt(dlat^2 + cos cos dlon^2)
\* in radians; one unit of 1e-4 degree is 11.1195 m, whose square is 123.643.
distance_to(a, b) ==
    LET dlat == b.lat - a.lat
        dlon == b.lon - a.lon
        coscos == (Cos1e4(a.lat) * Cos1e4(b.lat)) \div 10000
        lon2 == MulMilli(dlon * dlon, 123643)
    IN  ISqrt(MulMilli(dlat * dlat, 123643) + (lon2 \div 10000) * coscos
              + ((lon2 % 10000) * coscos) \div 10000)

\* Initial bearing.  The code computes, in f64,
\*   y = sin(dlon) cos(lat2),
\*   x = cos(lat1) sin(lat2) - sin(lat1) cos(lat2) cos(dlon),
\*   bearing = atan2(y, x) in degrees,   (bearing + 360.0) % 360.0.
\* The model takes sin and cos from a table at multiples of 30 degrees,
\* scaled by 1000, finds the octant of atan2 from the signs and sizes of y
\* and x, and lets the angle be any of a few values of that octant, its
\* ends and the values next to its ends included (sin(pi) is not 0.0 in
\* f64, so a bearing due north may come out a hair below 0).  The sum with
\* 360.0 is rounded to the f64 grid around 360.0, which is AngleUlp wide,
\* far wider than the grid around 0.

\* 1000 * sin of a whole number of degrees that is a multiple of 30
SinMilli(deg) ==
    LET d == deg % 360
    IN  CASE d \in {0, 180} -> 0
          [] d \in {30, 150} -> 500
          [] d \in {60, 120} -> 866
          [] d = 90 -> 1000
          [] d \in {210, 330} -> -500
          [] d \in {240, 300} -> -866
          [] d = 270 -> -1000

CosMilli(deg) == SinMilli(deg + 90)

WholeDegrees(coord) == coord \div 10000

Deg(d) == d * MilliPerDegree

\* y of bearing_to, scaled by 1000000
bearing_y(self, other) ==
    SinMilli(WholeDegrees(other.lon - self.lon)) * CosMilli(WholeDegrees(other.lat))

\* x of bearing_to, scaled by 1000000
bearing_x(self, other) ==
    LET lat1 == WholeDegrees(self.lat)
        lat2 == WholeDegrees(other.lat)
        dlon == WholeDegrees(other.lon - self.lon)
    IN  CosMilli(lat1) * SinMilli(lat2)
        - (SinMilli(lat1) * CosMilli(lat2) * CosMilli(dlon)) \div 1000

\* the octant <<lo, hi>> of atan2(y, x) in whole degrees, for y >= 0
Atan2Octant(y, x) ==
    CASE y = 0 /\ x >= 0 -> <<0, 0>>
      [] y = 0 /\ x < 0 -> <<180, 180>>
      [] y > 0 /\ x = 0 -> <<90, 90>>
      [] y > 0 /\ x > 0 /\ y < x -> <<0, 45>>
      [] y > 0 /\ x > 0 /\ y = x -> <<45, 45>>
      [] y > 0 /\ x > 0 /\ y > x -> <<45, 90>>
      [] y > 0 /\ x < 0 /\ y > 0 - x -> <<90, 135>>
      [] y > 0 /\ x < 0 /\ y = 0 - x -> <<135, 135>>
      [] y > 0 /\ x < 0 /\ y < 0 - x -> <<135, 180>>

\* the values y.atan2(x).to_degrees() may take: within [-180, 180], in the
\* octant of (y, x) or next to its ends, one unit or one step of the grid
\* around 360.0 away; next to 180 is also next to -180
atan2_degrees(y, x) ==
    LET oct == IF y >= 0 THEN Atan2Octant(y, x)
               ELSE <<0 - Atan2Octant(0 - y, x)[2], 0 - Atan2Octant(0 - y, x)[1]>>
        lo == Deg(oct[1])
        hi == Deg(oct[2])
        near == {lo - AngleUlp, lo - 1, lo, lo + 1, lo + AngleUlp, (lo + hi) \div 2,
                 hi - AngleUlp, hi - 1, hi, hi + 1, hi + AngleUlp}
        wrap == IF hi = Deg(180) THEN {0 - Deg(180), 1 - Deg(180)}
                ELSE IF lo = 0 - Deg(180) THEN {Deg(180), Deg(180) - 1}
                ELSE {}
    IN  { a \in near \cup wrap : 0 - Deg(180) <= a /\ a <= Deg(180) }

\* an f64 sum near 360.0: the nearest value of the grid, ties to the even one
RoundToGrid(v) ==
    LET q == v \div AngleUlp
        r == v % AngleUlp
    IN  IF 2 * r < AngleUlp THEN q * AngleUlp
        ELSE IF 2 * r > AngleUlp THEN (q + 1) * AngleUlp
        ELSE IF q % 2 = 0 THEN q * AngleUlp ELSE (q + 1) * AngleUlp

\* a normalisation that adds 360 to the negative angles only
normalize_if_negative(angle) ==
    IF angle < 0 THEN RoundToGrid(angle + Deg(360)) ELSE angle

\* (bearing + 360.0) % 360.0
normalize_bearing(angle) == RoundToGrid(angle + Deg(360)) % Deg(360)

\* Location::bearing_to: the values it may return
bearing_to(self, other) ==
    { [angle |-> a, value |-> normalize_bearing(a)] :
        a \in atan2_degrees(bearing_y(self, other), bearing_x(self, other)) }

-----------------------------------------------------------------------------
(* radar_view.rs: RadarView.                                               *)

\* egui::Rect, in pixels
Rect_from(x0, y0, x1, y1) ==
    [min |-> [x |-> Num(x0), y |-> Num(y0)], max |-> [x |-> Num(x1), y |-> Num(y1)]]

\* egui::Rect::NOTHING: from +infinity to -infinity
Rect_NOTHING ==
    [min |-> [x |-> PosInf, y |-> PosInf], max |-> [x |-> NegInf, y |-> NegInf]]

\* Rect::center(): (min + max) / 2, here in 0.1 pixel: times 10 / 2
Rect_center(rect) ==
    [x |-> FTimes(FAdd(rect.min.x, rect.max.x), 5),
     y |-> FTimes(FAdd(rect.min.y, rect.max.y), 5)]

Rect_width(rect) == FSub(rect.max.x, rect.min.x)
Rect_height(rect) == FSub(rect.max.y, rect.min.y)

\* rect.width().min(rect.height()) * 0.4, here in 0.1 pixel: times 10 * 0.4
RadarView_new_radius(rect) == FTimes(FMin(Rect_width(rect), Rect_height(rect)), 4)

InitialScale == 100

\* RadarView::new(rect): the four fields of a fresh view
RadarView_new(rect) ==
    [center |-> Rect_center(rect),
     radius |-> RadarView_new_radius(rect),
     scale |-> Num(InitialScale),
     aircraft_trails |-> <<>>]

\* distance < self.radius in place of distance <= self.radius
WithinRadius_strict(dx, dy, r) ==
    /\ r > 0
    /\ Abs(dx) < r
    /\ Abs(dy) < r
    /\ dx * dx + dy * dy < r * r

\* sqrt(dx^2 + dy^2) <= r, for finite dx, dy, r.  The sides are compared
\* first so that the squares stay within 32 bits; the result is the same.
WithinRadius(dx, dy, r) ==
    /\ r >= 0
    /\ Abs(dx) <= r
    /\ Abs(dy) <= r
    /\ dx * dx + dy * dy <= r * r

\* distance <= self.radius, where distance is
\* ((x - center.x)^2 + (y - center.y)^2).sqrt()
DistanceLe(x, y, c, r) ==
    LET dx == FSub(x, c.x)
        dy == FSub(y, c.y)
    IN  CASE IsNaN(dx) \/ IsNaN(dy) \/ IsNaN(r) -> FALSE
          [] ~IsNum(dx) \/ ~IsNum(dy) -> r.k = "inf"
          [] r.k = "inf" -> TRUE
          [] r.k = "ninf" -> FALSE
          [] OTHER -> WithinRadius(dx.v, dy.v, r.v)

\* (diff * 1000000.0) as f32 * self.scale, in 0.1 pixel
ScaledDiff(diff, s) == IF IsNum(s) THEN Num(10 * diff * s.v) ELSE NaN

\* RadarView::geo_to_screen of a view with center c, radius r and scale s
geo_to_screen(c, r, s, geo_point, user_location) ==
    LET lat_diff == geo_point.y - user_location.lat
        lon_diff == geo_point.x - user_location.lon
        x == FAdd(c.x, ScaledDiff(lon_diff, s))
        y == FSub(c.y, ScaledDiff(lat_diff, s))
    IN  IF DistanceLe(x, y, c, r) THEN Some([x |-> x, y |-> y]) ELSE None

MinScale == 10
MaxScale == 500

\* set_scale(scale): scale.clamp(0.1, 5.0)
set_scale(s) == FClamp(s, MinScale, MaxScale)

\* self.scale * 1.2 and self.scale / 1.2, rounded down to the unit 0.01
zoom_in(s) == set_scale(IF IsNum(s) THEN Num((s.v * 12) \div 10) ELSE s)
zoom_out(s) == set_scale(IF IsNum(s) THEN Num((s.v * 10) \div 12) ELSE s)

-----------------------------------------------------------------------------
(* aircraft.rs: Aircraft.  Strings that the code trims or shows as labels  *)
(* are sequences of one-character strings.                                 *)

\* the fields of Aircraft that the radar view reads
Aircraft_rec(icao24, callsign, time_position, longitude, latitude, altitude, true_track) ==
    [icao24 |-> icao24, callsign |-> callsign, time_position |-> time_position,
     longitude |-> longitude, latitude |-> latitude, altitude |-> altitude,
     true_track |-> true_track]

\* Aircraft::new(icao24): every optional field None
Aircraft_new(icao24) == Aircraft_rec(icao24, None, None, None, None, None, None)

\* Aircraft::position
position(a) ==
    IF IsSome(a.longitude) /\ IsSome(a.latitude)
    THEN Some(Point_new(Unwrap(a.longitude), Unwrap(a.latitude)))
    ELSE None

\* the bands closed above: a boundary value stays in the lower band
altitude_band_closed_above(a) ==
    CASE ~IsSome(a.altitude) -> "Unknown"
      [] Unwrap(a.altitude) <= 10 * 1000 -> "Low"
      [] Unwrap(a.altitude) <= 10 * 10000 -> "Medium"
      [] Unwrap(a.altitude) <= 10 * 25000 -> "High"
      [] OTHER -> "VeryHigh"

\* Aircraft::altitude_band: the arms of the match in their order, the
\* thresholds 1000.0, 10000.0 and 25000.0 feet
altitude_band(a) ==
    CASE ~IsSome(a.altitude) -> "Unknown"
      [] Unwrap(a.altitude) < 10 * 1000 -> "Low"
      [] Unwrap(a.altitude) < 10 * 10000 -> "Medium"
      [] Unwrap(a.altitude) < 10 * 25000 -> "High"
      [] OTHER -> "VeryHigh"

\* AltitudeBand::color
AltitudeBand_color(band) ==
    CASE band = "Low" -> <<255, 255, 0>>
      [] band = "Medium" -> <<0, 255, 0>>
      [] band = "High" -> <<0, 255, 255>>
      [] band = "VeryHigh" -> <<255, 0, 255>>
      [] OTHER -> <<128, 128, 128>>

IsSpace(ch) == ch = " "

RECURSIVE TrimStart(_)
TrimStart(str) ==
    IF str # <<>> /\ IsSpace(Head(str)) THEN TrimStart(Tail(str)) ELSE str

RECURSIVE TrimEnd(_)
TrimEnd(str) ==
    IF str # <<>> /\ IsSpace(str[Len(str)])
    THEN TrimEnd(SubSeq(str, 1, Len(str) - 1)) ELSE str

\* str::trim
Trim(str) == TrimEnd(TrimStart(str))

\* Aircraft::display_name: callsign.map(trim).unwrap_or(icao24)
display_name(a) ==
    IF IsSome(a.callsign) THEN Trim(Unwrap(a.callsign)) ELSE a.icao24

\* chrono::Duration::num_seconds of a duration in ticks: whole seconds,
\* rounded toward zero
num_seconds(d) ==
    IF d >= 0 THEN d \div TicksPerSecond ELSE -((-d) \div TicksPerSecond)

ActiveSeconds == 300

\* an aircraft that is still active when its position is exactly 300 s old
is_active_at_most(a, clock) ==
    IF IsSome(a.time_position)
    THEN num_seconds(clock - Unwrap(a.time_position)) <= ActiveSeconds
    ELSE FALSE

\* Aircraft::is_active, Utc::now() reading `clock`
is_active(a, clock) ==
    IF IsSome(a.time_position)
    THEN num_seconds(clock - Unwrap(a.time_position)) < ActiveSeconds
    ELSE FALSE

-----------------------------------------------------------------------------
(* config.rs: AppConfig and Theme.                                         *)

\* Theme::is_dark
is_dark(theme) == theme # "Light"

DefaultRefreshIntervalSeconds == 30
DefaultRadarRadiusKm == 80
DefaultTrailLength == 10

\* AppConfig::default, window_size left out
AppConfig_default ==
    [location |-> san_francisco,
     refresh_interval_seconds |-> DefaultRefreshIntervalSeconds,
     radar_radius_km |-> Num(DefaultRadarRadiusKm),
     show_trails |-> TRUE,
     trail_length |-> DefaultTrailLength,
     theme |-> "Dark",
     api_credentials |-> None,
     auto_refresh |-> TRUE]

MinStoredRefreshSeconds == 10
MinStoredRadarRadiusKm == 10
MaxStoredRadarRadiusKm == 1000
MaxStoredTrailLength == 50

\* AppConfig::load, the file and the environment giving `stored`: a refresh
\* interval under 10 becomes 30, a radius outside 1..100 becomes 8.0, a trail
\* length over 50 becomes 10
AppConfig_load(stored) ==
    [stored EXCEPT
        !.refresh_interval_seconds =
            IF @ < MinStoredRefreshSeconds THEN DefaultRefreshIntervalSeconds ELSE @,
        !.radar_radius_km =
            IF FLt(@, Num(MinStoredRadarRadiusKm)) \/ FLt(Num(MaxStoredRadarRadiusKm), @)
            THEN Num(DefaultRadarRadiusKm) ELSE @,
        !.trail_length =
            IF @ > MaxStoredTrailLength THEN DefaultTrailLength ELSE @]

-----------------------------------------------------------------------------
(* api.rs: the telemetry sources, and the choice SkyRadarApp::new makes.   *)

\* OpenSkyApi::with_credentials
OpenSkyApi_with_credentials(username, password) ==
    [source |-> "OpenSky", username |-> Some(username), password |-> Some(password)]

\* MockApi::new
MockApi_new == [source |-> "Mock", username |-> None, password |-> None]

\* SkyRadarApp::new: the OpenSky client if the configuration has
\* credentials, the mock otherwise
SelectApi(cfg) ==
    IF IsSome(cfg.api_credentials)
    THEN OpenSkyApi_with_credentials(Unwrap(cfg.api_credentials).username,
                                     Unwrap(cfg.api_credentials).password)
    ELSE MockApi_new

-----------------------------------------------------------------------------
(* radar_view.rs: the trail store.                                         *)

EmptyMap == <<>>

MapPut(m, key, val) ==
    [i \in (DOMAIN m) \cup {key} |-> IF i = key THEN val ELSE m[i]]

\* a loop body that makes an entry for every aircraft, positioned or not
update_trail_of_always_entry(trails, a, cfg, clock) ==
    LET t == IF a.icao24 \in DOMAIN trails THEN trails[a.icao24]
             ELSE AircraftTrail_new(a.icao24, cfg.trail_length)
        timestamp == IF IsSome(a.time_position) THEN Unwrap(a.time_position) ELSE clock
    IN  MapPut(trails, a.icao24,
               IF IsSome(position(a))
               THEN add_position(t, Unwrap(position(a)), timestamp) ELSE t)

\* a loop body that takes the capacity from the configuration at every call
update_trail_of_resizing(trails, a, cfg, clock) ==
    IF IsSome(position(a))
    THEN LET t == IF a.icao24 \in DOMAIN trails
                  THEN [trails[a.icao24] EXCEPT !.max_points = cfg.trail_length]
                  ELSE AircraftTrail_new(a.icao24, cfg.trail_length)
             timestamp == IF IsSome(a.time_position)
                          THEN Unwrap(a.time_position) ELSE clock
         IN  MapPut(trails, a.icao24,
                    add_position(t, Unwrap(position(a)), timestamp))
    ELSE trails

\* the body of the loop of update_trails, for one aircraft
update_trail_of(trails, a, cfg, clock) ==
    IF IsSome(position(a))
    THEN LET t == IF a.icao24 \in DOMAIN trails THEN trails[a.icao24]
                  ELSE AircraftTrail_new(a.icao24, cfg.trail_length)
             timestamp == IF IsSome(a.time_position)
                          THEN Unwrap(a.time_position) ELSE clock
         IN  MapPut(trails, a.icao24,
                    add_position(t, Unwrap(position(a)), timestamp))
    ELSE trails

\* RadarView::update_trails(aircraft, config), the clock reading clock
RECURSIVE update_trails(_, _, _, _)
update_trails(trails, snapshot, cfg, clock) ==
    IF snapshot = <<>> THEN trails
    ELSE update_trails(update_trail_of(trails, Head(snapshot), cfg, clock),
                       Tail(snapshot), cfg, clock)

\* a clear that empties every trail (AircraftTrail::clear) and keeps the trails
clear_trails_each(trails) ==
    [id \in DOMAIN trails |-> [trails[id] EXCEPT !.positions = <<>>]]

\* RadarView::clear_trails
clear_trails(trails) == EmptyMap

-----------------------------------------------------------------------------
(* radar_view.rs: drawing.  A draw is the sequence of primitives handed to *)
(* the painter, each tagged with the layer that emitted it.                *)

DarkBackground == <<20, 20, 30>>
LightBackground == <<240, 240, 250>>
DarkRing == <<60, 60, 80>>
LightRing == <<200, 200, 220>>
White == <<255, 255, 255>>
Black == <<0, 0, 0>>
TrailColor == <<100, 100, 255, 100>>

\* draw_radar_background: rect_filled(from_center_size(center, 2 radius), radius, color)
draw_radar_background(c, r, cfg) ==
    << [layer |-> "background", kind |-> "rect_filled", center |-> c,
        size |-> FTimes(r, 2), rounding |-> r,
        color |-> IF is_dark(cfg.theme) THEN DarkBackground ELSE LightBackground] >>

RingCount == 5

\* ring i of draw_range_rings: the circle, then its label "<i> mi".
\* ring_radius = radius * i / 5 is kept as radius * i, in 0.02 pixel, and the
\* label position center + 0.7 ring_radius as 50 center + 7 i radius, in 0.002 pixel.
draw_range_ring(c, r, cfg, i) ==
    LET ring_color == IF is_dark(cfg.theme) THEN DarkRing ELSE LightRing
    IN  << [layer |-> "rings", kind |-> "circle_stroke", center |-> c,
            ring_radius |-> FTimes(r, i), width |-> 1, color |-> ring_color],
           [layer |-> "rings", kind |-> "text",
            pos |-> [x |-> FAdd(FTimes(c.x, 50), FTimes(r, 7 * i)),
                     y |-> FSub(FTimes(c.y, 50), FTimes(r, 7 * i))],
            miles |-> i, unit |-> "mi", font |-> 12, color |-> ring_color] >>

RECURSIVE RingsFrom(_, _, _, _)
RingsFrom(c, r, cfg, i) ==
    IF i > RingCount THEN <<>>
    ELSE draw_range_ring(c, r, cfg, i) \o RingsFrom(c, r, cfg, i + 1)

\* draw_range_rings: for i in 1..=5
draw_range_rings(c, r, cfg) == RingsFrom(c, r, cfg, 1)

\* sin and cos of a multiple of 90 degrees
SinDeg(deg) == CASE deg % 360 = 90 -> 1 [] deg % 360 = 270 -> -1 [] OTHER -> 0
CosDeg(deg) == CASE deg % 360 = 0 -> 1 [] deg % 360 = 180 -> -1 [] OTHER -> 0

CompassOffset == 200

\* one letter of draw_compass_rose, at radius + 20 pixels.  (With an
\* infinite radius the center is NaN, and so is the position.)
compass_mark(c, r, direction, angle) ==
    [layer |-> "compass", kind |-> "text", text |-> direction,
     pos |-> [x |-> FAdd(c.x, FTimes(FAdd(r, Num(CompassOffset)), SinDeg(angle))),
              y |-> FSub(c.y, FTimes(FAdd(r, Num(CompassOffset)), CosDeg(angle)))],
     font |-> 14, color |-> White]

\* draw_compass_rose: N, E, S, W at 0, 90, 180, 270 degrees
draw_compass_rose(c, r) ==
    << compass_mark(c, r, "N", 0), compass_mark(c, r, "E", 90),
       compass_mark(c, r, "S", 180), compass_mark(c, r, "W", 270) >>

\* the screen points of the positions that project, in stored order
RECURSIVE trail_points(_, _, _, _, _)
trail_points(c, r, s, positions, loc) ==
    IF positions = <<>> THEN <<>>
    ELSE LET p == geo_to_screen(c, r, s, Head(positions)[1], loc)
         IN  (IF IsSome(p) THEN <<Unwrap(p)>> ELSE <<>>)
             \o trail_points(c, r, s, Tail(positions), loc)

\* a loop body without the second test: a line of the points there are
draw_trail_any_points(c, r, s, t, loc) ==
    IF Len(t.positions) < 2 THEN <<>>
    ELSE << [layer |-> "trails", kind |-> "line",
             points |-> trail_points(c, r, s, t.positions, loc),
             width |-> 2, color |-> TrailColor] >>

\* the body of the loop of draw_aircraft_trails, for one trail
draw_trail(c, r, s, t, loc) ==
    IF Len(t.positions) < 2 THEN <<>>
    ELSE LET points == trail_points(c, r, s, t.positions, loc)
         IN  IF Len(points) >= 2
             THEN << [layer |-> "trails", kind |-> "line", points |-> points,
                      width |-> 2, color |-> TrailColor] >>
             ELSE <<>>

\* draw_aircraft_trails: for trail in self.aircraft_trails.values(), the
\* HashMap handing out its values in the order `order`
RECURSIVE draw_aircraft_trails(_, _, _, _, _, _)
draw_aircraft_trails(c, r, s, trails, order, loc) ==
    IF order = <<>> THEN <<>>
    ELSE draw_trail(c, r, s, trails[Head(order)], loc)
         \o draw_aircraft_trails(c, r, s, trails, Tail(order), loc)

IconSize == 80
WingCos == -32
WingSin == 24
LabelRise == 150

\* the three vertices of the triangle, heading a multiple of 90 degrees:
\* pos + size (cos h, -sin h), pos + size/2 (cos(h + 2.5), -sin(h + 2.5)),
\* pos + size/2 (cos(h - 2.5), -sin(h - 2.5)), the angles h +- 2.5 in radians
triangle(pos, heading) ==
    LET ch == CosDeg(heading)
        sh == SinDeg(heading)
        at(dx, dy) == [x |-> FAdd(pos.x, Num(dx)), y |-> FSub(pos.y, Num(dy))]
    IN  << at(IconSize * ch, IconSize * sh),
           at(ch * WingCos - sh * WingSin, sh * WingCos + ch * WingSin),
           at(ch * WingCos + sh * WingSin, sh * WingCos - ch * WingSin) >>

\* an icon routine that draws nothing for an aircraft without a heading
draw_aircraft_icon_needs_heading(a, pos) ==
    IF IsSome(a.true_track)
    THEN << [layer |-> "icon", kind |-> "convex_polygon",
             points |-> triangle(pos, Unwrap(a.true_track)),
             color |-> AltitudeBand_color(altitude_band(a)), stroke |-> Black] >>
    ELSE <<>>

\* draw_aircraft_icon: the icon, then the label unless it is empty
draw_aircraft_icon(a, pos) ==
    LET color == AltitudeBand_color(altitude_band(a))
        label == display_name(a)
    IN  << IF IsSome(a.true_track)
           THEN [layer |-> "icon", kind |-> "convex_polygon",
                 points |-> triangle(pos, Unwrap(a.true_track)),
                 color |-> color, stroke |-> Black]
           ELSE [layer |-> "icon", kind |-> "circle_filled", pos |-> pos,
                 size |-> IconSize, color |-> color] >>
        \o (IF label # <<>>
            THEN << [layer |-> "label", kind |-> "text", label |-> label,
                     pos |-> [x |-> pos.x, y |-> FSub(pos.y, Num(LabelRise))],
                     font |-> 10, color |-> White] >>
            ELSE <<>>)

\* draw_aircraft: for aircraft in aircraft, those with a position that projects
RECURSIVE draw_aircraft(_, _, _, _, _)
draw_aircraft(c, r, s, snapshot, loc) ==
    IF snapshot = <<>> THEN <<>>
    ELSE LET a == Head(snapshot)
             p == IF IsSome(position(a))
                  THEN geo_to_screen(c, r, s, Unwrap(position(a)), loc) ELSE None
         IN  (IF IsSome(p) THEN draw_aircraft_icon(a, Unwrap(p)) ELSE <<>>)
             \o draw_aircraft(c, r, s, Tail(snapshot), loc)

CrossSize == 100
LocationLabelDrop == 250

\* draw_center_marker: the cross, then the name of the location
draw_center_marker(c, loc) ==
    << [layer |-> "center", kind |-> "line_segment",
        from |-> [x |-> FSub(c.x, Num(CrossSize)), y |-> c.y],
        to |-> [x |-> FAdd(c.x, Num(CrossSize)), y |-> c.y],
        width |-> 2, color |-> White],
       [layer |-> "center", kind |-> "line_segment",
        from |-> [x |-> c.x, y |-> FSub(c.y, Num(CrossSize))],
        to |-> [x |-> c.x, y |-> FAdd(c.y, Num(CrossSize))],
        width |-> 2, color |-> White],
       [layer |-> "center", kind |-> "text",
        name |-> IF IsSome(loc.name) THEN Unwrap(loc.name) ELSE "Your Location",
        pos |-> [x |-> c.x, y |-> FAdd(c.y, Num(LocationLabelDrop))],
        font |-> 12, color |-> White] >>

\* RadarView::draw(ui, aircraft, config, user_location): what the painter gets
draw(c, r, s, trails, order, snapshot, cfg, loc) ==
    draw_radar_background(c, r, cfg)
    \o draw_range_rings(c, r, cfg)
    \o draw_compass_rose(c, r)
    \o (IF cfg.show_trails
        THEN draw_aircraft_trails(c, r, s, trails, order, loc) ELSE <<>>)
    \o draw_aircraft(c, r, s, snapshot, loc)
    \o draw_center_marker(c, loc)

\* the orders in which a HashMap with the keys of m may hand out its values
Orders(m) ==
    { o \in [1..Cardinality(DOMAIN m) -> DOMAIN m] :
        \A i, j \in 1..Cardinality(DOMAIN m) : i # j => o[i] # o[j] }

-----------------------------------------------------------------------------
(* The values the operations are tried on.                                 *)

HereOf(loc) == Point_new(loc.lon, loc.lat)
NorthOf(loc, d) == Point_new(loc.lon, loc.lat + d)
EastOf(loc, d) == Point_new(loc.lon + d, loc.lat)

\* 22 m north of San Francisco: 200 pixels at scale 1.0
NearPoint == NorthOf(san_francisco, 2)

\* 1012 m north of San Francisco: 9100 pixels at scale 1.0, 910 at scale 0.1
FarPoint == NorthOf(san_francisco, 91)

\* 0 m, 22 m and 26 m from the reference, and 1012 m north of it
GeoPoints ==
    { HereOf(san_francisco), NearPoint, EastOf(san_francisco, 3),
      NorthOf(san_francisco, -2), FarPoint }

Stamps == 0..MaxStamp

MockIcao == <<"a", "1", "2", "3", "4", "5">>
OtherIcao == <<"b", "6", "7">>

\* viewport rectangles: the seed of SkyRadarApp::new, an empty one, an
\* inverted one, the minimum and the default window of main.rs, a 5K screen
ViewRects ==
    { Rect_NOTHING, Rect_from(40, 60, 40, 60), Rect_from(100, 100, 50, 50),
      Rect_from(0, 0, 800, 600), Rect_from(0, 0, 1200, 800),
      Rect_from(0, 0, 5120, 2880) }

\* arguments of set_scale: any f32
ScaleArgs ==
    { NaN, NegInf, PosInf, Num(-100), Num(0), Num(MinScale), Num(InitialScale),
      Num(MaxScale), Num(MaxScale + 200) }

\* radar_radius_km after set_radar_radius or load: within 1..100
RadarRadii == {Num(MinStoredRadarRadiusKm), Num(DefaultRadarRadiusKm)}

ViewConfigs == { [AppConfig_default EXCEPT !.radar_radius_km = km] : km \in RadarRadii }

AppIdle ==
    /\ api = SelectApi(config)
    /\ aircraft = <<>>
    /\ last_update = None
    /\ last_refresh = 0
    /\ status_message = <<"Initializing...">>
    /\ is_loading = FALSE
    /\ now = 0
    /\ pc = "update"
    /\ refreshed = FALSE

-----------------------------------------------------------------------------
(* SpecTrail: one AircraftTrail and the calls of add_position on it.       *)

InitTrail ==
    /\ \E k \in 0..MaxPoints : trail = AircraftTrail_new(MockIcao, k)
    /\ appended = <<>>
    /\ bearing = None
    /\ center = RadarView_new(Rect_NOTHING).center
    /\ radius = RadarView_new(Rect_NOTHING).radius
    /\ scale = RadarView_new(Rect_NOTHING).scale
    /\ aircraft_trails = EmptyMap
    /\ canvas = <<>>
    /\ config = AppConfig_default
    /\ AppIdle

\* trail.add_position(position, timestamp)
AddPosition ==
    \E p \in {HereOf(san_francisco), NearPoint}, ts \in Stamps :
        /\ Len(appended) < MaxAppends
        /\ trail' = add_position(trail, p, ts)
        /\ appended' = Append(appended, <<p, ts>>)
        /\ UNCHANGED <<viewVars, appVars, geoVars>>

NextTrail == AddPosition

SpecTrail == InitTrail /\ [][NextTrail]_vars

\* C1: after any sequence of add_position calls on a trail created empty with
\* bound max_points (0 included), the trail holds at most max_points positions.
TrailBounded == Len(trail.positions) <= trail.max_points

\* a burst of appends beyond the bound, and the bound 0 after an append
TrailBoundedWitness ==
    /\ trail.max_points = 0
    /\ Len(appended) >= 2
    /\ trail.positions = <<>>

LastK(seq, k) == SubSeq(seq, Len(seq) - k + 1, Len(seq))

\* C2: after N appends to a trail whose bound is k < N, the trail holds exactly
\* k entries, the k most recently appended ones, oldest first.
TrailKeepsNewest ==
    trail.max_points < Len(appended)
        => /\ Len(trail.positions) = trail.max_points
           /\ trail.positions = LastK(appended, trail.max_points)

\* bound 3 and four appends P1..P4, of which P1 differs from P4: [P2, P3, P4]
TrailKeepsNewestWitness ==
    /\ trail.max_points = 3
    /\ Len(appended) = 4
    /\ appended[1] # appended[4]
    /\ trail.positions = <<appended[2], appended[3], appended[4]>>

-----------------------------------------------------------------------------
(* SpecView: the frame and the scale of one RadarView.                     *)

InitView ==
    /\ \E rect \in ViewRects :
          /\ center = RadarView_new(rect).center
          /\ radius = RadarView_new(rect).radius
          /\ scale = RadarView_new(rect).scale
          /\ aircraft_trails = RadarView_new(rect).aircraft_trails
    /\ canvas = <<>>
    /\ config \in ViewConfigs
    /\ trail = AircraftTrail_new(MockIcao, 0)
    /\ appended = <<>>
    /\ bearing = None
    /\ AppIdle

\* a fresh view for another viewport: RadarView::new(rect)
ViewNew ==
    \E rect \in ViewRects :
        /\ center' = RadarView_new(rect).center
        /\ radius' = RadarView_new(rect).radius
        /\ scale' = RadarView_new(rect).scale
        /\ aircraft_trails' = RadarView_new(rect).aircraft_trails
        /\ UNCHANGED <<canvas, trailVars, geoVars, appVars>>

\* radar_view.set_scale(arg)
SetScale ==
    \E arg \in ScaleArgs :
        /\ scale' = set_scale(arg)
        /\ UNCHANGED <<center, radius, aircraft_trails, canvas, trailVars, geoVars, appVars>>

\* radar_view.zoom_in()
ZoomIn ==
    /\ scale' = zoom_in(scale)
    /\ UNCHANGED <<center, radius, aircraft_trails, canvas, trailVars, geoVars, appVars>>

\* radar_view.zoom_out()
ZoomOut ==
    /\ scale' = zoom_out(scale)
    /\ UNCHANGED <<center, radius, aircraft_trails, canvas, trailVars, geoVars, appVars>>

NextView == ViewNew \/ SetScale \/ ZoomIn \/ ZoomOut

SpecView == InitView /\ [][NextView]_vars

ScaleInRange == IsNum(scale) /\ MinScale <= scale.v /\ scale.v <= MaxScale

\* the scales tried in place of the view's own: 0.1, 0.12, 1.0, 1.2, 5.0
SomeScales == { Num(MinScale), Num(MinScale + 2), Num(InitialScale),
                Num(InitialScale + 20), Num(MaxScale) }

MaxRangeMetres == config.radar_radius_km.v * 100

FrameIsProper == IsNum(center.x) /\ IsNum(center.y) /\ IsNum(radius) /\ radius.v >= 0

Project(s, p) == geo_to_screen(center, radius, s, p, config.location)

\* the square of the distance in 0.1 pixel from the frame center is at most
\* (radius * scale)^2, radius * scale rounded up to 0.1 pixel
WithinScaledRadius(pt, s) ==
    WithinRadius(pt.x.v - center.x.v, pt.y.v - center.y.v,
                 (radius.v * s.v + 99) \div 100)

\* C4: a point farther from the reference than radar_radius_km projects to
\* none, for every viewport and every scale in [0.1, 5.0].
BeyondRangeIsNone ==
    \A p \in GeoPoints :
        (ScaleInRange /\ distance_to(config.location, Location_from_point(p)) > MaxRangeMetres)
            => Project(scale, p) = None

MinWindowRadius == RadarView_new_radius(Rect_from(0, 0, 800, 600)).v

\* C5: a point within radar_radius_km of the reference projects to a screen
\* point at most pixelRadius * scale from the frame center.  Stated for the
\* frames of a window no smaller than the 800 x 600 minimum of main.rs.
WithinRangeIsDrawn ==
    \A p \in GeoPoints :
        (/\ ScaleInRange /\ FrameIsProper /\ radius.v >= MinWindowRadius
         /\ distance_to(config.location, Location_from_point(p)) <= MaxRangeMetres)
            => /\ IsSome(Project(scale, p))
               /\ WithinScaledRadius(Unwrap(Project(scale, p)), scale)

\* C6 as claimed: the reference location projects to exactly the frame
\* center, for every frame, the degenerate ones included, and every scale.
ReferenceIsCenter == Project(scale, HereOf(config.location)) = Some(center)

\* C6 as amended: the reference location projects to exactly the frame center
\* for every frame built from a viewport of finite, non-negative width and
\* height, and every scale in [0.1, 5.0].
ReferenceIsCenterOfProperFrame ==
    (FrameIsProper /\ ScaleInRange) => ReferenceIsCenter

\* the empty viewport (radius 0), its center off the origin, at scale 5.0
ReferenceIsCenterWitness ==
    /\ radius = Num(0)
    /\ center.x # Num(0)
    /\ scale = Num(MaxScale)
    /\ Project(scale, HereOf(config.location)) = Some(center)

\* C7: for a fixed reference, viewport and point, the projection returns a
\* point at one scale of [0.1, 5.0] iff it returns one at every other.
ZoomKeepsRange ==
    \A p \in GeoPoints : \A s1, s2 \in SomeScales \cup {scale} :
        (s1.k = "num" /\ s2.k = "num" /\ MinScale <= s1.v /\ s1.v <= MaxScale
            /\ MinScale <= s2.v /\ s2.v <= MaxScale)
            => (IsSome(Project(s1, p)) <=> IsSome(Project(s2, p)))

\* C8: after any sequence of set_scale (any argument), zoom_in and zoom_out
\* from a new radar view, the scale is within [0.1, 5.0].
ScaleAlwaysClamped == ScaleInRange

-----------------------------------------------------------------------------
(* SpecAircraft: one Aircraft made by Aircraft::new, its public fields     *)
(* assigned as the reports on it arrive, and the clock.                    *)

MaxClock == 302         \* the clock stops here, in seconds

\* callsigns: missing, empty, blank, plain, padded
Callsigns ==
    { None, Some(<<>>), Some(<<" ", " ">>), Some(<<"U", "A", "L">>),
      Some(<<" ", "U", "A", "L", " ">>) }

\* altitudes in feet: missing, below ground, and each threshold with the
\* value 0.1 ft under it
Altitudes ==
    { None, Some(-10), Some(0), Some(10 * 1000 - 1), Some(10 * 1000),
      Some(10 * 10000 - 1), Some(10 * 10000), Some(10 * 25000 - 1),
      Some(10 * 25000), Some(10 * 35000) }

\* time_position: missing, the start of the clock, one tick after it
TimePositions == { None, Some(0), Some(1) }

\* the clock moves by one tick or by 299 seconds
ClockGaps == { 1, (ActiveSeconds - 1) * TicksPerSecond }

InitAircraft ==
    /\ aircraft = <<Aircraft_new(MockIcao)>>
    /\ now = 0
    /\ trail = AircraftTrail_new(MockIcao, 0)
    /\ appended = <<>>
    /\ bearing = None
    /\ center = RadarView_new(Rect_NOTHING).center
    /\ radius = RadarView_new(Rect_NOTHING).radius
    /\ scale = RadarView_new(Rect_NOTHING).scale
    /\ aircraft_trails = EmptyMap
    /\ canvas = <<>>
    /\ config = AppConfig_default
    /\ api = SelectApi(config)
    /\ last_update = None
    /\ last_refresh = 0
    /\ status_message = <<"Initializing...">>
    /\ is_loading = FALSE
    /\ pc = "update"
    /\ refreshed = FALSE

\* aircraft.callsign = c
SetCallsign ==
    \E c \in Callsigns :
        /\ aircraft' = <<[aircraft[1] EXCEPT !.callsign = c]>>
        /\ UNCHANGED <<trailVars, geoVars, api, viewVars, config, last_update, last_refresh,
                       status_message, is_loading, now, pc, refreshed>>

\* aircraft.altitude = alt
SetAltitude ==
    \E alt \in Altitudes :
        /\ aircraft' = <<[aircraft[1] EXCEPT !.altitude = alt]>>
        /\ UNCHANGED <<trailVars, geoVars, api, viewVars, config, last_update, last_refresh,
                       status_message, is_loading, now, pc, refreshed>>

\* aircraft.time_position = tp
SetTimePosition ==
    \E tp \in TimePositions :
        /\ aircraft' = <<[aircraft[1] EXCEPT !.time_position = tp]>>
        /\ UNCHANGED <<trailVars, geoVars, api, viewVars, config, last_update, last_refresh,
                       status_message, is_loading, now, pc, refreshed>>

\* time passes
ClockTick ==
    \E gap \in ClockGaps :
        /\ now + gap <= MaxClock * TicksPerSecond
        /\ now' = now + gap
        /\ UNCHANGED <<trailVars, geoVars, api, viewVars, config, aircraft, last_update,
                       last_refresh, status_message, is_loading, pc, refreshed>>

NextAircraft == SetCallsign \/ SetAltitude \/ SetTimePosition \/ ClockTick

SpecAircraft == InitAircraft /\ [][NextAircraft]_vars

IsBlank(str) == \A i \in 1..Len(str) : str[i] = " "

\* C12: display_name is the trimmed callsign when the callsign is present and
\* not empty after trimming, and the icao24 identifier when the callsign is
\* missing, empty or blank.
DisplayNameFallsBack ==
    \A i \in 1..Len(aircraft) :
        LET a == aircraft[i]
        IN  display_name(a) =
                IF IsSome(a.callsign) /\ ~IsBlank(Unwrap(a.callsign))
                THEN Trim(Unwrap(a.callsign)) ELSE a.icao24

\* C13: is_active holds iff there is a time_position and the time elapsed
\* since it is under 300 seconds; without a time_position the aircraft is
\* never active.
ActiveUnderFiveMinutes ==
    \A i \in 1..Len(aircraft) :
        LET a == aircraft[i]
        IN  is_active(a, now) <=>
                /\ IsSome(a.time_position)
                /\ now - Unwrap(a.time_position) < ActiveSeconds * TicksPerSecond

\* a position one tick short of 300 seconds old, still active
ActiveUnderFiveMinutesWitness ==
    /\ aircraft[1].time_position = Some(0)
    /\ now = ActiveSeconds * TicksPerSecond - 1
    /\ is_active(aircraft[1], now)

\* C14: altitude_band gives Unknown for a missing altitude, Low under 1000 ft,
\* Medium from 1000 ft and under 10000 ft, High from 10000 ft and under
\* 25000 ft, VeryHigh from 25000 ft: each boundary belongs to the higher band.
BandsPartition ==
    \A i \in 1..Len(aircraft) :
        LET a == aircraft[i]
            band == altitude_band(a)
            feet == Unwrap(a.altitude)
        IN  /\ band \in {"Unknown", "Low", "Medium", "High", "VeryHigh"}
            /\ ~IsSome(a.altitude) => band = "Unknown"
            /\ IsSome(a.altitude) =>
                  /\ feet < 10 * 1000 => band = "Low"
                  /\ (10 * 1000 <= feet /\ feet < 10 * 10000) => band = "Medium"
                  /\ (10 * 10000 <= feet /\ feet < 10 * 25000) => band = "High"
                  /\ 10 * 25000 <= feet => band = "VeryHigh"

\* the boundary 10000 ft, in the band High
BandsPartitionWitness ==
    /\ aircraft[1].altitude = Some(10 * 10000)
    /\ altitude_band(aircraft[1]) = "High"

-----------------------------------------------------------------------------
(* app.rs: SkyRadarApp.  One frame of eframe::App::update is three steps:  *)
(* update(ctx), draw_main_window(ctx), draw_settings_window(ctx).          *)
(* RadarView's public methods update_trails and clear_trails are actions   *)
(* of their own: app.rs itself calls neither.                              *)

MaxTime == 20           \* the clock stops here, in seconds
MaxTrailLength == 3     \* largest trail_length tried besides the default

FrameSeconds == 10

\* the time between two frames
FrameGaps == {0, FrameSeconds * TicksPerSecond}

\* the aircraft of refresh_aircraft_data, fetched at `clock`
MockAircraft(clock) ==
    Aircraft_rec(MockIcao, Some(<<"T", "E", "S", "T", "1", "2", "3">>), Some(clock),
                 Some(SanFranciscoLon), Some(SanFranciscoLat), Some(350000), Some(90))

\* the four fields refresh_aircraft_data writes
AppData ==
    [aircraft |-> aircraft, last_update |-> last_update,
     status_message |-> status_message, is_loading |-> is_loading]

\* MockApi::get_aircraft_in_radius: two aircraft, wherever and however far
MockApi_get_aircraft_in_radius(location, radius_km, clock) ==
    << MockAircraft(clock),
       Aircraft_rec(OtherIcao, Some(<<"D", "E", "M", "O", "4", "5", "6">>), Some(clock),
                    Some(-1224000), Some(377800), Some(280000), Some(180)) >>

\* a refresh that takes the snapshot from the source chosen at construction
refresh_aircraft_data_from_api(st, clock) ==
    IF st.is_loading THEN st
    ELSE [aircraft |-> IF api.source = "Mock"
                       THEN MockApi_get_aircraft_in_radius(
                                config.location, config.radar_radius_km, clock)
                       ELSE <<>>,
          last_update |-> Some(clock),
          status_message |-> <<"Last updated: ", clock>>,
          is_loading |-> FALSE]

\* a refresh that returns with the busy flag still set
refresh_aircraft_data_stays_busy(st, clock) ==
    IF st.is_loading THEN st
    ELSE [aircraft |-> <<MockAircraft(clock)>>,
          last_update |-> Some(clock),
          status_message |-> <<"Last updated: ", clock>>,
          is_loading |-> TRUE]

\* SkyRadarApp::refresh_aircraft_data, Utc::now() reading `clock`
refresh_aircraft_data(st, clock) ==
    IF st.is_loading THEN st
    ELSE [aircraft |-> <<MockAircraft(clock)>>,
          last_update |-> Some(clock),
          status_message |-> <<"Last updated: ", clock>>,
          is_loading |-> FALSE]

SetAppData(st) ==
    /\ aircraft' = st.aircraft
    /\ last_update' = st.last_update
    /\ status_message' = st.status_message
    /\ is_loading' = st.is_loading

\* available_rect of the window: the minimum and the default size of main.rs
AppRects == { Rect_from(0, 0, 800, 600), Rect_from(0, 0, 1200, 800) }

\* trail_length: no entry, one entry, several
TrailLengths == {0, 1, MaxTrailLength}

\* a configuration file with OpenSky credentials, another reference location,
\* a radius of 50 km and a refresh at every other frame gap
StoredWithCredentials ==
    [AppConfig_default EXCEPT
        !.api_credentials = Some([username |-> <<"u">>, password |-> <<"p">>]),
        !.location = Location_from_point(FarPoint),
        !.radar_radius_km = Num(500),
        !.refresh_interval_seconds = 2 * FrameSeconds]

\* what the configuration file may hold: a trail length of nothing, of one,
\* of several, the largest accepted and the first rejected; a refresh
\* interval under the minimum, of one frame gap, and the default
StoredConfigs ==
    { [AppConfig_default EXCEPT !.trail_length = tl, !.refresh_interval_seconds = iv] :
        tl \in TrailLengths \cup {MaxStoredTrailLength, MaxStoredTrailLength + 1},
        iv \in {FrameSeconds - 1, FrameSeconds, DefaultRefreshIntervalSeconds} }
    \cup { StoredWithCredentials }

\* AppConfig::load().unwrap_or_else(|e| AppConfig::default()) at start-up
StartConfigs ==
    { AppConfig_default } \cup { AppConfig_load(stored) : stored \in StoredConfigs }

\* SkyRadarApp::new
InitApp ==
    /\ config \in StartConfigs
    /\ center = RadarView_new(Rect_NOTHING).center
    /\ radius = RadarView_new(Rect_NOTHING).radius
    /\ scale = RadarView_new(Rect_NOTHING).scale
    /\ aircraft_trails = RadarView_new(Rect_NOTHING).aircraft_trails
    /\ canvas = <<>>
    /\ trail = AircraftTrail_new(MockIcao, 0)
    /\ appended = <<>>
    /\ bearing = None
    /\ AppIdle

\* an automatic refresh at every frame, whatever the time elapsed
auto_refresh_due_every_frame(cfg, elapsed) == cfg.auto_refresh

\* the test of SkyRadarApp::update: auto_refresh is on and last_refresh is
\* at least refresh_interval_seconds old
auto_refresh_due(cfg, elapsed) ==
    /\ cfg.auto_refresh
    /\ elapsed >= cfg.refresh_interval_seconds * TicksPerSecond

\* SkyRadarApp::update(ctx): a new RadarView, then the automatic refresh
AppUpdate ==
    \E rect \in AppRects, gap \in FrameGaps :
        /\ pc = "update"
        /\ now + gap <= MaxTime * TicksPerSecond
        /\ now' = now + gap
        /\ center' = RadarView_new(rect).center
        /\ radius' = RadarView_new(rect).radius
        /\ scale' = RadarView_new(rect).scale
        /\ aircraft_trails' = RadarView_new(rect).aircraft_trails
        /\ LET due == auto_refresh_due(config, now' - last_refresh)
           IN  /\ SetAppData(IF due THEN refresh_aircraft_data(AppData, now') ELSE AppData)
               /\ last_refresh' = IF due THEN now' ELSE last_refresh
               /\ refreshed' = (due /\ ~is_loading)
        /\ pc' = "main"
        /\ UNCHANGED <<config, canvas, trailVars, geoVars, api>>

\* SkyRadarApp::draw_main_window(ctx): the Refresh button, then the radar
DrawMainWindow ==
    \E clicked \in BOOLEAN, order \in Orders(aircraft_trails) :
        /\ pc = "main"
        /\ LET st == IF clicked THEN refresh_aircraft_data(AppData, now) ELSE AppData
           IN  /\ SetAppData(st)
               /\ canvas' = draw(center, radius, scale, aircraft_trails, order,
                                 st.aircraft, config, config.location)
        /\ refreshed' = (refreshed \/ (clicked /\ ~is_loading))
        /\ pc' = "settings"
        /\ UNCHANGED <<center, radius, scale, aircraft_trails, config,
                       last_refresh, now, trailVars, geoVars, api>>

Max(a, b) == IF a >= b THEN a ELSE b

MinRefreshIntervalSeconds == 10

\* AppConfig::set_refresh_interval
set_refresh_interval(cfg, seconds) ==
    [cfg EXCEPT !.refresh_interval_seconds = Max(seconds, MinRefreshIntervalSeconds)]

MinRadarRadiusKm == 10
MaxRadarRadiusKm == 1000

\* AppConfig::set_radar_radius: f64::clamp, which hands a NaN back
set_radar_radius(cfg, radius_km) ==
    [cfg EXCEPT !.radar_radius_km = FClamp(radius_km, MinRadarRadiusKm, MaxRadarRadiusKm)]

\* AppConfig::set_theme
set_theme(cfg, theme) == [cfg EXCEPT !.theme = theme]

\* AppConfig::toggle_trails
toggle_trails(cfg) == [cfg EXCEPT !.show_trails = ~cfg.show_trails]

\* AppConfig::toggle_auto_refresh
toggle_auto_refresh(cfg) == [cfg EXCEPT !.auto_refresh = ~cfg.auto_refresh]

\* what one frame of the settings window can leave in config
SettingsOutcomes(cfg) ==
    { cfg,
      [cfg EXCEPT !.auto_refresh = ~cfg.auto_refresh],
      [cfg EXCEPT !.show_trails = ~cfg.show_trails],
      set_refresh_interval(cfg, FrameSeconds),
      set_radar_radius(cfg, Num(MinRadarRadiusKm)),
      AppConfig_default }

\* SkyRadarApp::draw_settings_window(ctx)
DrawSettingsWindow ==
    /\ pc = "settings"
    /\ config' \in SettingsOutcomes(config)
    /\ pc' = "update"
    /\ UNCHANGED <<viewVars, trailVars, geoVars, api, aircraft, last_update, last_refresh,
                   status_message, is_loading, now, refreshed>>

\* the aircraft handed to the view from outside the application: the mock
\* aircraft, and a second one with each of callsign, altitude and heading
\* present or missing, in range, out of range, or without a position
Fleet ==
    { MockAircraft(0),
      Aircraft_rec(OtherIcao, None, None,
                   Some(NearPoint.x), Some(NearPoint.y), None, None),
      Aircraft_rec(OtherIcao, Some(<<"U", "A", "L">>), None,
                   Some(NearPoint.x), Some(NearPoint.y), Some(120000), None),
      Aircraft_rec(OtherIcao, Some(<<" ", "U", "A", "L", " ">>), None,
                   Some(NearPoint.x), Some(NearPoint.y), None, Some(0)),
      Aircraft_rec(OtherIcao, Some(<<" ", " ">>), None,
                   Some(NearPoint.x), Some(NearPoint.y), Some(5000), Some(270)),
      Aircraft_rec(OtherIcao, None, None,
                   Some(FarPoint.x), Some(FarPoint.y), Some(5000), Some(180)),
      Aircraft_rec(OtherIcao, Some(<<"U", "A", "L">>), None,
                   Some(SanFranciscoLon), None, Some(120000), Some(180)),
      Aircraft_rec(OtherIcao, Some(<<"U", "A", "L">>), None,
                   None, Some(SanFranciscoLat), Some(120000), Some(180)) }

\* snapshots of at most two aircraft, no identifier twice
Snapshots ==
    { <<>> } \cup { <<a>> : a \in Fleet }
    \cup { <<ab[1], ab[2]>> : ab \in { pr \in Fleet \X Fleet : pr[1].icao24 # pr[2].icao24 } }

\* self.radar_view.update_trails(&self.aircraft, &self.config) between two
\* frames: the public method on the application's view, with the
\* application's snapshot and configuration
AppUpdateTrails ==
    /\ pc = "update"
    /\ aircraft_trails' = update_trails(aircraft_trails, aircraft, config, now)
    /\ UNCHANGED <<center, radius, scale, canvas, trailVars, geoVars, appVars>>

\* radar_view.clear_trails()
ClearTrails ==
    /\ pc = "update"
    /\ aircraft_trails' = clear_trails(aircraft_trails)
    /\ UNCHANGED <<center, radius, scale, canvas, trailVars, geoVars, appVars>>

Next == AppUpdate \/ DrawMainWindow \/ DrawSettingsWindow \/ AppUpdateTrails \/ ClearTrails

Spec == InitApp /\ [][Next]_vars

-----------------------------------------------------------------------------
(* SpecDraw: one RadarView, fed and drawn through its public methods.      *)

\* the default configuration, and a light one with the smallest range
DrawConfigs ==
    { AppConfig_default,
      [AppConfig_default EXCEPT !.theme = "Light", !.radar_radius_km = Num(MinStoredRadarRadiusKm)] }

\* the minimum window of main.rs
DrawRect == Rect_from(0, 0, 800, 600)

InitDraw ==
    /\ center = RadarView_new(DrawRect).center
    /\ radius = RadarView_new(DrawRect).radius
    /\ scale = RadarView_new(DrawRect).scale
    /\ aircraft_trails = RadarView_new(DrawRect).aircraft_trails
    /\ canvas = <<>>
    /\ config \in DrawConfigs
    /\ trail = AircraftTrail_new(MockIcao, 0)
    /\ appended = <<>>
    /\ bearing = None
    /\ AppIdle

\* a new snapshot arrives and is fed to the view:
\* radar_view.update_trails(&aircraft, &config), config.trail_length being tl.
\* The painter of the frame that starts here has nothing yet.
UpdateTrails ==
    \E snapshot \in Snapshots, tl \in TrailLengths :
        /\ aircraft' = snapshot
        /\ aircraft_trails' =
              update_trails(aircraft_trails, snapshot,
                            [config EXCEPT !.trail_length = tl], now)
        /\ canvas' = <<>>
        /\ UNCHANGED <<center, radius, scale, trailVars, geoVars, api, config, last_update,
                       last_refresh, status_message, is_loading, now, pc, refreshed>>

\* radar_view.draw(ui, &aircraft, &config, &config.location), with trails
\* shown or hidden
Draw ==
    \E show \in BOOLEAN, order \in Orders(aircraft_trails) :
        /\ config' = [config EXCEPT !.show_trails = show]
        /\ canvas' = draw(center, radius, scale, aircraft_trails, order, aircraft,
                          config', config.location)
        /\ UNCHANGED <<center, radius, scale, aircraft_trails, trailVars, geoVars, api, aircraft,
                       last_update, last_refresh, status_message, is_loading, now,
                       pc, refreshed>>

NextDraw == UpdateTrails \/ ClearTrails \/ Draw

SpecDraw == InitDraw /\ [][NextDraw]_vars

-----------------------------------------------------------------------------
(* Claims about the application loop (Spec) and about drawing (SpecDraw).  *)

LayerRank(layer) ==
    CASE layer = "background" -> 1
      [] layer = "rings" -> 2
      [] layer = "compass" -> 3
      [] layer = "trails" -> 4
      [] layer = "icon" -> 5
      [] layer = "label" -> 6
      [] OTHER -> 7

\* C9: a draw emits background, range rings, compass rose, trails, aircraft
\* icons, aircraft labels, center marker in this order: no primitive of an
\* earlier layer follows a primitive of a later layer.
LayersInOrder ==
    \A i, j \in 1..Len(canvas) :
        i < j => LayerRank(canvas[i].layer) <= LayerRank(canvas[j].layer)

\* C10: when draw has run in a frame with a refresh, every aircraft of the
\* snapshot that has a position has it as the newest entry of its trail.
DrawSeesSnapshotInTrails ==
    (pc = "settings" /\ refreshed) =>
        \A i \in 1..Len(aircraft) :
            IsSome(position(aircraft[i])) =>
                /\ aircraft[i].icao24 \in DOMAIN aircraft_trails
                /\ aircraft_trails[aircraft[i].icao24].positions # <<>>
                /\ LET stored == aircraft_trails[aircraft[i].icao24].positions
                   IN  stored[Len(stored)][1] = Unwrap(position(aircraft[i]))

-----------------------------------------------------------------------------
(* Claims about update_trails and draw on one view (SpecDraw).             *)

Min(a, b) == IF a <= b THEN a ELSE b

\* the trail of `id` is the same before and after the step, or absent in both
TrailUntouched(id) ==
    /\ (id \in DOMAIN aircraft_trails') <=> (id \in DOMAIN aircraft_trails)
    /\ id \in DOMAIN aircraft_trails => aircraft_trails'[id] = aircraft_trails[id]

\* after the step the trail of aircraft a exists and is its trail of before
\* (empty, if it had none) with a's position appended, cut to the trail's
\* bound from the old end
TrailFed(a) ==
    LET id == a.icao24
        old == IF id \in DOMAIN aircraft_trails
               THEN aircraft_trails[id].positions ELSE <<>>
        timestamp == IF IsSome(a.time_position) THEN Unwrap(a.time_position) ELSE now
        fed == Append(old, <<Unwrap(position(a)), timestamp>>)
    IN  /\ id \in DOMAIN aircraft_trails'
        /\ id \in DOMAIN aircraft_trails =>
               aircraft_trails'[id].max_points = aircraft_trails[id].max_points
        /\ aircraft_trails'[id].positions =
               LastK(fed, Min(Len(fed), aircraft_trails'[id].max_points))

\* C11: an update_trails step leaves the trail store as it was for every
\* aircraft of the snapshot without a position (longitude or latitude
\* missing): no trail is made for it and its trail, if any, is not touched;
\* the aircraft of the same snapshot that have a position are fed to their trails.
UpdateSkipsUnpositioned ==
    [][ClearTrails \/ canvas' # <<>> \/
       \A i \in 1..Len(aircraft') :
           IF IsSome(position(aircraft'[i]))
           THEN TrailFed(aircraft'[i])
           ELSE TrailUntouched(aircraft'[i].icao24)]_vars

\* a snapshot of an aircraft without a position and one with a position has
\* been fed: the second has its position in its trail, the first has no trail
UpdateSkipsUnpositionedWitness ==
    \E i, j \in 1..Len(aircraft) :
        /\ canvas = <<>>
        /\ ~IsSome(position(aircraft[i]))
        /\ aircraft[i].icao24 \notin DOMAIN aircraft_trails
        /\ IsSome(position(aircraft[j]))
        /\ aircraft[j].icao24 \in DOMAIN aircraft_trails
        /\ aircraft_trails[aircraft[j].icao24].positions # <<>>

\* the members of a set of indices in ascending order
Ascending(idx) ==
    CHOOSE g \in [1..Cardinality(idx) -> idx] :
        \A a, b \in 1..Cardinality(idx) : a < b => g[a] < g[b]

\* the polylines of a draw
TrailLines(cv) == SelectSeq(cv, LAMBDA pr : pr.layer = "trails")

\* the screen points of the entries of trail t that project, oldest first
InRangePoints(t) ==
    LET idx == { i \in 1..Len(t.positions) : IsSome(Project(scale, t.positions[i][1])) }
        f == Ascending(idx)
    IN  [k \in 1..Cardinality(idx) |-> Unwrap(Project(scale, t.positions[f[k]][1]))]

Icons(cv) == SelectSeq(cv, LAMBDA pr : pr.layer = "icon")
Labels(cv) == SelectSeq(cv, LAMBDA pr : pr.layer = "label")

\* the aircraft of the snapshot that have a position which projects
Shown(snapshot) ==
    { i \in 1..Len(snapshot) :
        /\ IsSome(snapshot[i].longitude) /\ IsSome(snapshot[i].latitude)
        /\ IsSome(Project(scale, Point_new(Unwrap(snapshot[i].longitude),
                                           Unwrap(snapshot[i].latitude)))) }

\* C16: a draw emits one icon for each aircraft of the snapshot whose position
\* projects, whatever else it lacks, and neither icon nor label for the
\* others; the icon is a triangle iff the aircraft has a heading and a circle
\* otherwise, and has the colour of the band Unknown iff it has no altitude.
FieldsDegradeIndependently ==
    [][(canvas' # <<>> /\ aircraft_trails' = aircraft_trails) =>
          LET icons == Icons(canvas')
              shown == Ascending(Shown(aircraft'))
          IN  /\ Len(icons) = Len(shown)
              /\ Len(Labels(canvas')) <= Len(icons)
              /\ \A k \in 1..Len(shown) :
                    LET a == aircraft'[shown[k]]
                    IN  /\ icons[k].kind = IF IsSome(a.true_track)
                                           THEN "convex_polygon" ELSE "circle_filled"
                        /\ (icons[k].color = AltitudeBand_color("Unknown"))
                               <=> ~IsSome(a.altitude)]_vars

\* a draw of two aircraft in range: one with every field, drawn as a triangle,
\* and one with an altitude and no heading, drawn as a circle of its band
FieldsDegradeIndependentlyWitness ==
    /\ Len(aircraft) = 2
    /\ Len(Icons(canvas)) = 2
    /\ \E i, j \in 1..2 :
          /\ Icons(canvas)[i].kind = "convex_polygon"
          /\ Icons(canvas)[j].kind = "circle_filled"
          /\ ~IsSome(aircraft[j].true_track)
          /\ IsSome(aircraft[j].altitude)
          /\ Icons(canvas)[j].color = AltitudeBand_color("High")

\* the nose, first vertex of the triangle, lies from pos in the compass
\* direction `heading` on a screen whose y grows downward
NoseAlong(heading, pos, nose) ==
    CASE heading = 0 -> nose.x.v = pos.x.v /\ nose.y.v < pos.y.v
      [] heading = 90 -> nose.y.v = pos.y.v /\ nose.x.v > pos.x.v
      [] heading = 180 -> nose.x.v = pos.x.v /\ nose.y.v > pos.y.v
      [] heading = 270 -> nose.y.v = pos.y.v /\ nose.x.v < pos.x.v

\* C17: the triangle of an aircraft points along its heading, in degrees
\* clockwise from north: the nose is straight above the icon position for
\* heading 0, to its right for 90, below it for 180, to its left for 270.
NosePointsAlongHeading ==
    canvas # <<>> =>
        LET icons == Icons(canvas)
            shown == Ascending(Shown(aircraft))
        IN  \A k \in 1..Len(shown) :
                LET a == aircraft[shown[k]]
                IN  IsSome(a.true_track) =>
                        NoseAlong(Unwrap(a.true_track),
                                  Unwrap(Project(scale, Unwrap(position(a)))),
                                  icons[k].points[1])

\* the circles and the labels of the range rings of a draw
RingCircles(cv) ==
    SelectSeq(cv, LAMBDA pr : pr.layer = "rings" /\ pr.kind = "circle_stroke")
RingLabels(cv) ==
    SelectSeq(cv, LAMBDA pr : pr.layer = "rings" /\ pr.kind = "text")

\* C18: the range rings are at the fractions i/5 of the pixel radius, and the
\* label of ring i states the distance i/5 of the configured range: in whole
\* miles of 1609 m, it is within half a mile of radar_radius_km * i/5, so the
\* outermost label is the configured range.
RingLabelsAreDistances ==
    canvas # <<>> =>
        /\ Len(RingCircles(canvas)) = RingCount
        /\ Len(RingLabels(canvas)) = RingCount
        /\ \A i \in 1..RingCount :
              /\ RingCircles(canvas)[i].ring_radius = FTimes(radius, i)
              /\ 2 * Abs(RingLabels(canvas)[i].miles * 1609 * RingCount
                         - i * config.radar_radius_km.v * 100) <= 1609 * RingCount

\* C19: a draw is determined by the frame, the snapshot, the trail contents,
\* the reference location and the display configuration: whatever the order
\* in which the trail map hands out its trails, the primitives emitted and
\* their order are the same.
DrawIsDeterministic ==
    \A o1, o2 \in Orders(aircraft_trails) :
        draw(center, radius, scale, aircraft_trails, o1, aircraft, config, config.location)
        = draw(center, radius, scale, aircraft_trails, o2, aircraft, config, config.location)

\* C20: the trail length handed to the view is within 1..50: the
\* configuration of the application, made by default() or by load() from any
\* stored value, has it so, and so has every trail created from it.
TrailLengthWithinBounds ==
    /\ 1 <= config.trail_length /\ config.trail_length <= MaxStoredTrailLength
    /\ \A id \in DOMAIN aircraft_trails :
          /\ 1 <= aircraft_trails[id].max_points
          /\ aircraft_trails[id].max_points <= MaxStoredTrailLength

-----------------------------------------------------------------------------
(* SpecConfig: one AppConfig and the calls of its setters, with arguments  *)
(* of every kind a u64 and an f64 can be.                                  *)

MaxIntervalArg == 301

\* seconds: nothing, under the minimum, the minimum, above it, the default,
\* the largest the settings window offers and one more
IntervalArgs ==
    {0, 5, MinRefreshIntervalSeconds - 1, MinRefreshIntervalSeconds,
     MinRefreshIntervalSeconds + 1, DefaultRefreshIntervalSeconds,
     MaxIntervalArg - 1, MaxIntervalArg}

\* kilometres: not a number, the infinities, a negative, zero, 0.5, the
\* bounds and their neighbours, the default, 150
RadiusArgs ==
    {NaN, PosInf, NegInf, Num(-10), Num(0), Num(5),
     Num(MinRadarRadiusKm - 1), Num(MinRadarRadiusKm), Num(MinRadarRadiusKm + 1),
     Num(DefaultRadarRadiusKm),
     Num(MaxRadarRadiusKm - 1), Num(MaxRadarRadiusKm), Num(MaxRadarRadiusKm + 1),
     Num(1500)}

Themes == {"Light", "Dark", "Auto"}

InitConfig ==
    /\ config = AppConfig_default
    /\ center = RadarView_new(Rect_NOTHING).center
    /\ radius = RadarView_new(Rect_NOTHING).radius
    /\ scale = RadarView_new(Rect_NOTHING).scale
    /\ aircraft_trails = EmptyMap
    /\ canvas = <<>>
    /\ trail = AircraftTrail_new(MockIcao, 0)
    /\ appended = <<>>
    /\ bearing = None
    /\ AppIdle

ConfigOnly ==
    UNCHANGED <<trailVars, geoVars, api, viewVars, aircraft, last_update, last_refresh,
                status_message, is_loading, now, pc, refreshed>>

SetRefreshInterval ==
    \E seconds \in IntervalArgs :
        /\ config' = set_refresh_interval(config, seconds)
        /\ ConfigOnly

SetRadarRadius ==
    \E radius_km \in RadiusArgs :
        /\ config' = set_radar_radius(config, radius_km)
        /\ ConfigOnly

SetTheme ==
    \E theme \in Themes :
        /\ config' = set_theme(config, theme)
        /\ ConfigOnly

ToggleTrails == config' = toggle_trails(config) /\ ConfigOnly

ToggleAutoRefresh == config' = toggle_auto_refresh(config) /\ ConfigOnly

NextConfig ==
    \/ SetRefreshInterval
    \/ SetRadarRadius
    \/ SetTheme
    \/ ToggleTrails
    \/ ToggleAutoRefresh

SpecConfig == InitConfig /\ [][NextConfig]_vars

\* C21: after any sequence of set_refresh_interval and set_radar_radius calls
\* with arbitrary arguments the refresh interval is at least 10 seconds and
\* the radar radius is a number within 1.0 .. 100.0 km.
ConfigStaysInRange ==
    /\ config.refresh_interval_seconds >= MinRefreshIntervalSeconds
    /\ IsNum(config.radar_radius_km)
    /\ config.radar_radius_km.v >= MinRadarRadiusKm
    /\ config.radar_radius_km.v <= MaxRadarRadiusKm

\* the part of C21 that the code does keep: the interval is always at least
\* 10, and a radius that is a number stays within the bounds
ConfigInRangeUnlessNaN ==
    /\ config.refresh_interval_seconds >= MinRefreshIntervalSeconds
    /\ \/ IsNaN(config.radar_radius_km)
       \/ /\ IsNum(config.radar_radius_km)
          /\ config.radar_radius_km.v >= MinRadarRadiusKm
          /\ config.radar_radius_km.v <= MaxRadarRadiusKm

-----------------------------------------------------------------------------
(* SpecStore: the trail store of one RadarView, fed with snapshots under a *)
(* configuration whose trail_length changes from call to call, and         *)
(* cleared.  `aircraft` and `config` are the arguments of the last         *)
(* update_trails.                                                          *)

\* radar_view.update_trails(&snapshot, &config) with config.trail_length = tl
UpdateTrailsWith ==
    \E snapshot \in Snapshots, tl \in TrailLengths :
        /\ aircraft' = snapshot
        /\ config' = [config EXCEPT !.trail_length = tl]
        /\ aircraft_trails' = update_trails(aircraft_trails, snapshot, config', now)
        /\ UNCHANGED <<center, radius, scale, canvas, trailVars, geoVars, api, last_update,
                       last_refresh, status_message, is_loading, now, pc, refreshed>>

NextStore == UpdateTrailsWith \/ ClearTrails

SpecStore == InitDraw /\ [][NextStore]_vars

\* the entry update_trails makes of aircraft a
EntryOf(a) ==
    <<Unwrap(position(a)),
      IF IsSome(a.time_position) THEN Unwrap(a.time_position) ELSE now>>

CapacityFixedAtCreation ==
    [][ClearTrails \/
       /\ \A id \in DOMAIN aircraft_trails' :
              /\ aircraft_trails'[id].max_points =
                     IF id \in DOMAIN aircraft_trails
                     THEN aircraft_trails[id].max_points
                     ELSE config'.trail_length
              /\ Len(aircraft_trails'[id].positions) <= aircraft_trails'[id].max_points
       /\ \A i \in 1..Len(aircraft') :
              IsSome(position(aircraft'[i])) => TrailFed(aircraft'[i])]_vars

\* the last update had a trail length of 1 and fed two aircraft: one whose
\* trail was created with capacity 0 and holds nothing, one whose trail was
\* created with a larger capacity and is full
CapacityFixedAtCreationWitness ==
    \E i, j \in 1..Len(aircraft) :
        LET ti == aircraft_trails[aircraft[i].icao24]
            tj == aircraft_trails[aircraft[j].icao24]
        IN  /\ IsSome(position(aircraft[i]))
            /\ IsSome(position(aircraft[j]))
            /\ aircraft[i].icao24 \in DOMAIN aircraft_trails
            /\ aircraft[j].icao24 \in DOMAIN aircraft_trails
            /\ config.trail_length = 1
            /\ ti.max_points = 0
            /\ ti.positions = <<>>
            /\ tj.max_points > 1
            /\ Len(tj.positions) = tj.max_points

-----------------------------------------------------------------------------
(* Claims about the telemetry source and the refresh (Spec).               *)

\* C27: the telemetry source is the one SkyRadarApp::new chose from the
\* configuration it loaded (the OpenSky client if it has credentials, the
\* mock otherwise) and no step changes it; and in every frame in which a
\* refresh ran, the snapshot is the list of the one aircraft a12345 of
\* refresh_aircraft_data, stamped with the time of the refresh, whichever
\* the source, the configured location and the configured radius.
SourceChosenOnce ==
    /\ api = SelectApi(config)
    /\ [][/\ api' = api
          /\ refreshed' => aircraft' = <<MockAircraft(now')>>]_vars

\* a refresh has run in an application built with credentials, hence with
\* the OpenSky client, around another location and with another radius
SourceChosenOnceWitness ==
    /\ refreshed
    /\ api.source = "OpenSky"
    /\ config.location # san_francisco
    /\ config.radar_radius_km # Num(DefaultRadarRadiusKm)
    /\ aircraft = <<MockAircraft(now)>>

\* the settings window has put the default configuration, which has no
\* credentials, in place, and a refresh has run: the source is still the
\* OpenSky client chosen at construction
SourceKeptAfterReset ==
    /\ refreshed
    /\ api.source = "OpenSky"
    /\ config.api_credentials = None

\* the frame that starts with this step asks for an automatic refresh:
\* auto_refresh is on and last_refresh is refresh_interval_seconds old or older
AutoRefreshAsked ==
    /\ pc = "update" /\ pc' = "main"
    /\ config.auto_refresh
    /\ now' - last_refresh >= config.refresh_interval_seconds * TicksPerSecond

\* the refresh of this step has run: the snapshot, last_update and the
\* status message are those of a refresh at the time of the step
RefreshRan ==
    /\ aircraft' = <<MockAircraft(now')>>
    /\ last_update' = Some(now')
    /\ status_message' = <<"Last updated: ", now'>>

\* C24: a refresh asked for while is_loading is set returns the snapshot,
\* last_update and the status message as they were; is_loading is false in
\* every state between two handlers, the start of every UI tick included,
\* because every refresh that runs clears it before it returns; and so no
\* request is skipped: the refresh asked for in a frame runs in that frame.
BusyFlagNeverBlocks ==
    /\ [](/\ is_loading = FALSE
          /\ LET busy == [AppData EXCEPT !.is_loading = TRUE]
             IN  refresh_aircraft_data(busy, now) = busy)
    /\ [][AutoRefreshAsked => (RefreshRan /\ refreshed')]_vars

\* a UI tick starts after a frame in which a refresh ran
BusyFlagNeverBlocksWitness ==
    /\ pc = "update"
    /\ refreshed
    /\ last_update = Some(now)
    /\ ~is_loading

\* C26: the automatic refresh runs in a frame only if auto_refresh is on and
\* last_refresh is at least refresh_interval_seconds old, and then
\* last_refresh becomes the time of that frame, so that the next automatic
\* refresh is at least one interval later; no other step changes
\* last_refresh, the Refresh button of the main window included.
AutoRefreshEveryInterval ==
    [][IF pc = "update" /\ pc' = "main" /\ refreshed'
       THEN /\ config.auto_refresh
            /\ now' - last_refresh >= config.refresh_interval_seconds * TicksPerSecond
            /\ last_refresh' = now'
       ELSE last_refresh' = last_refresh]_vars

\* an automatic refresh has just fired, some time after the start
AutoRefreshEveryIntervalWitness ==
    /\ pc = "main"
    /\ refreshed
    /\ now > 0
    /\ last_refresh = now

\* the Refresh button has been used in a frame without automatic refresh:
\* last_refresh is older than the snapshot
ManualRefreshKeepsTimer ==
    /\ pc = "settings"
    /\ refreshed
    /\ last_update = Some(now)
    /\ last_refresh < now

-----------------------------------------------------------------------------
(* SpecGeo: bearings between the locations of a grid of 30 degrees in      *)
(* latitude and 90 degrees in longitude, poles and date line included.     *)

BearingLocations ==
    { Location_new(lat * 10000, lon * 10000, None) :
        lat \in {-90, -60, -30, 0, 30, 60, 90}, lon \in {-180, -90, 0, 90, 180} }

\* self.bearing_to(&other) returns
BearingTo ==
    \E self \in BearingLocations, other \in BearingLocations :
        \E b \in bearing_to(self, other) :
            /\ bearing = None
            /\ bearing' = Some([self |-> self, other |-> other,
                                angle |-> b.angle, value |-> b.value])
            /\ UNCHANGED <<trailVars, viewVars, appVars>>

\* the caller is done with the value
BearingDropped ==
    /\ bearing # None
    /\ bearing' = None
    /\ UNCHANGED <<trailVars, viewVars, appVars>>

NextGeo == BearingTo \/ BearingDropped

SpecGeo == InitConfig /\ [][NextGeo]_vars

\* C23: bearing_to returns a value b with 0 <= b < 360 for every pair of
\* locations, whatever atan2 gave within [-180, 180]: never 360, never negative.
BearingInRange ==
    IsSome(bearing) =>
        /\ 0 <= Unwrap(bearing).value
        /\ Unwrap(bearing).value < Deg(360)

\* atan2 gave an angle a hair below zero, whose sum with 360.0 rounds to
\* 360.0: the bearing is 0
BearingInRangeWitness ==
    /\ IsSome(bearing)
    /\ Unwrap(bearing).angle < 0
    /\ RoundToGrid(Unwrap(bearing).angle + Deg(360)) = Deg(360)
    /\ Unwrap(bearing).value = 0

====
